---- MODULE Spec2Model ----
(***************************************************************************)
(* Model of sgschema.schema.Schema's resolution engine: resolve_entity,    *)
(* _resolve_field, resolve_field (dotted multi-hop specs) and              *)
(* resolve_structure.                                                      *)
(*                                                                         *)
(* A Python string is a sequence of one-character strings, so that         *)
(* indexing (spec[0], spec[1:]), 'sg_' + spec, split('.') and '.'.join     *)
(* are computed as the code computes them.  A call either returns a value  *)
(* (Ok) or raises (Err); every raise in the code is a ValueError, told     *)
(* apart here by the raise site.                                           *)
(***************************************************************************)
EXTENDS Integers, Sequences, FiniteSets, TLC

VARIABLES store, call, result

vars == <<store, call, result>>

(***************************************************************************)
(* Strings.                                                                *)
(***************************************************************************)
Letters == {"a", "b", "c", "d", "e", "f", "g", "h", "i", "j", "k", "l", "m",
            "n", "o", "p", "q", "r", "s", "t", "u", "v", "w", "x", "y", "z",
            "A", "B", "C", "D", "E", "F", "G", "H", "I", "J", "K", "L", "M",
            "N", "O", "P", "Q", "R", "S", "T", "U", "V", "W", "X", "Y", "Z"}

Digits == {"0", "1", "2", "3", "4", "5", "6", "7", "8", "9"}

\* str.isalnum() of a one-character string.
isalnum(c) == c \in Letters \cup Digits

\* spec[1:]
Rest(s) == SubSeq(s, 2, Len(s))

\* The convention prefix 'sg_'.
sg_prefix == <<"s", "g", "_">>

Dot == "."

\* str.split('.'): the tokens between the dots, empty tokens included.
RECURSIVE split(_)
split(s) ==
    IF \A i \in 1..Len(s) : s[i] # Dot
    THEN <<s>>
    ELSE LET d == CHOOSE i \in 1..Len(s) :
                      s[i] = Dot /\ \A j \in 1..(i - 1) : s[j] # Dot
         IN  <<SubSeq(s, 1, d - 1)>> \o split(SubSeq(s, d + 1, Len(s)))

\* '.'.join(parts)
RECURSIVE join(_)
join(parts) ==
    IF parts = <<>> THEN <<>>
    ELSE IF Len(parts) = 1 THEN parts[1]
    ELSE parts[1] \o <<Dot>> \o join(Tail(parts))

(***************************************************************************)
(* Outcomes of a call.                                                     *)
(***************************************************************************)
Ok(v) == [ok |-> TRUE, val |-> v]

Err(e) == [ok |-> FALSE, err |-> e]

\* The raise sites, named as the specification names the error kinds.
InvalidSpec == "InvalidSpec"

UnknownEntity == "UnknownEntity"

IndexError == "IndexError"

\* dict.get(key, ()) on a mapping held as a function.
Get(m, k) == IF k \in DOMAIN m THEN m[k] ELSE <<>>

(***************************************************************************)
(* Schema.resolve_entity                                                   *)
(***************************************************************************)
\* resolve_entity with the implicit alias looked up before the exact name.
resolve_entity_alias_first(S, entity_spec, implicit_aliases, strict) ==
    IF entity_spec = <<>> THEN Err(IndexError)
    ELSE LET op == entity_spec[1] IN
         IF op = "!" THEN Ok(<<Rest(entity_spec)>>)
         ELSE IF op = "#" THEN Ok(Get(S.entity_tags, Rest(entity_spec)))
         ELSE IF op = "$" THEN
             IF Rest(entity_spec) \in DOMAIN S.entity_aliases
             THEN Ok(<<S.entity_aliases[Rest(entity_spec)]>>)
             ELSE Ok(<<>>)
         ELSE IF ~isalnum(op) THEN Err(InvalidSpec)
         ELSE IF implicit_aliases /\ entity_spec \in DOMAIN S.entity_aliases
              THEN Ok(<<S.entity_aliases[entity_spec]>>)
         ELSE IF entity_spec \in DOMAIN S.entities THEN Ok(<<entity_spec>>)
         ELSE IF strict THEN Err(UnknownEntity)
         ELSE Ok(<<entity_spec>>)

resolve_entity(S, entity_spec, implicit_aliases, strict) ==
    IF entity_spec = <<>> THEN Err(IndexError)
    ELSE LET op == entity_spec[1] IN
         IF op = "!" THEN Ok(<<Rest(entity_spec)>>)
         ELSE IF op = "#" THEN Ok(Get(S.entity_tags, Rest(entity_spec)))
         ELSE IF op = "$" THEN
             IF Rest(entity_spec) \in DOMAIN S.entity_aliases
             THEN Ok(<<S.entity_aliases[Rest(entity_spec)]>>)
             ELSE Ok(<<>>)
         ELSE IF ~isalnum(op) THEN Err(InvalidSpec)
         ELSE IF entity_spec \in DOMAIN S.entities THEN Ok(<<entity_spec>>)
         ELSE IF implicit_aliases /\ entity_spec \in DOMAIN S.entity_aliases
              THEN Ok(<<S.entity_aliases[entity_spec]>>)
         ELSE IF strict THEN Err(UnknownEntity)
         ELSE Ok(<<entity_spec>>)

(***************************************************************************)
(* Schema._resolve_field                                                   *)
(***************************************************************************)
s_id == <<"i", "d">>

s_type == <<"t", "y", "p", "e">>

\* _resolve_field with the implicit alias looked up before the exact name and
\* the prefixed name.
_resolve_field_alias_first(S, entity_spec, field_spec, auto_prefix, implicit_aliases, strict) ==
    IF entity_spec \notin DOMAIN S.entities THEN Err(UnknownEntity)
    ELSE LET entity == S.entities[entity_spec] IN
         IF field_spec \in {s_id, s_type} THEN Ok(<<field_spec>>)
         ELSE IF field_spec = <<>> THEN Err(IndexError)
         ELSE LET op == field_spec[1] IN
         IF op = "!" THEN Ok(<<Rest(field_spec)>>)
         ELSE IF op = "#" THEN Ok(Get(entity.field_tags, Rest(field_spec)))
         ELSE IF op = "$" THEN
             IF Rest(field_spec) \in DOMAIN entity.field_aliases
             THEN Ok(<<entity.field_aliases[Rest(field_spec)]>>)
             ELSE Ok(<<field_spec>>)
         ELSE IF ~isalnum(op) THEN Err(InvalidSpec)
         ELSE IF implicit_aliases /\ field_spec \in DOMAIN entity.field_aliases
              THEN Ok(<<entity.field_aliases[field_spec]>>)
         ELSE IF field_spec \in entity.fields THEN Ok(<<field_spec>>)
         ELSE IF auto_prefix /\ (sg_prefix \o field_spec) \in entity.fields
              THEN Ok(<<sg_prefix \o field_spec>>)
         ELSE IF strict THEN Err(UnknownEntity)
         ELSE Ok(<<field_spec>>)

\* _resolve_field with an alias miss "$A" stripped of its sigil.
_resolve_field_stripped_miss(S, entity_spec, field_spec, auto_prefix, implicit_aliases, strict) ==
    IF entity_spec \notin DOMAIN S.entities THEN Err(UnknownEntity)
    ELSE LET entity == S.entities[entity_spec] IN
         IF field_spec \in {s_id, s_type} THEN Ok(<<field_spec>>)
         ELSE IF field_spec = <<>> THEN Err(IndexError)
         ELSE LET op == field_spec[1] IN
         IF op = "!" THEN Ok(<<Rest(field_spec)>>)
         ELSE IF op = "#" THEN Ok(Get(entity.field_tags, Rest(field_spec)))
         ELSE IF op = "$" THEN
             IF Rest(field_spec) \in DOMAIN entity.field_aliases
             THEN Ok(<<entity.field_aliases[Rest(field_spec)]>>)
             ELSE Ok(<<Rest(field_spec)>>)
         ELSE IF ~isalnum(op) THEN Err(InvalidSpec)
         ELSE IF field_spec \in entity.fields THEN Ok(<<field_spec>>)
         ELSE IF auto_prefix /\ (sg_prefix \o field_spec) \in entity.fields
              THEN Ok(<<sg_prefix \o field_spec>>)
         ELSE IF implicit_aliases /\ field_spec \in DOMAIN entity.field_aliases
              THEN Ok(<<entity.field_aliases[field_spec]>>)
         ELSE IF strict THEN Err(UnknownEntity)
         ELSE Ok(<<field_spec>>)

_resolve_field(S, entity_spec, field_spec, auto_prefix, implicit_aliases, strict) ==
    IF entity_spec \notin DOMAIN S.entities THEN Err(UnknownEntity)
    ELSE LET entity == S.entities[entity_spec] IN
         IF field_spec \in {s_id, s_type} THEN Ok(<<field_spec>>)
         ELSE IF field_spec = <<>> THEN Err(IndexError)
         ELSE LET op == field_spec[1] IN
         IF op = "!" THEN Ok(<<Rest(field_spec)>>)
         ELSE IF op = "#" THEN Ok(Get(entity.field_tags, Rest(field_spec)))
         ELSE IF op = "$" THEN
             IF Rest(field_spec) \in DOMAIN entity.field_aliases
             THEN Ok(<<entity.field_aliases[Rest(field_spec)]>>)
             ELSE Ok(<<field_spec>>)
         ELSE IF ~isalnum(op) THEN Err(InvalidSpec)
         ELSE IF field_spec \in entity.fields THEN Ok(<<field_spec>>)
         ELSE IF auto_prefix /\ (sg_prefix \o field_spec) \in entity.fields
              THEN Ok(<<sg_prefix \o field_spec>>)
         ELSE IF implicit_aliases /\ field_spec \in DOMAIN entity.field_aliases
              THEN Ok(<<entity.field_aliases[field_spec]>>)
         ELSE IF strict THEN Err(UnknownEntity)
         ELSE Ok(<<field_spec>>)

(***************************************************************************)
(* Schema.resolve_field                                                    *)
(***************************************************************************)
\* A field spec argument is one string or a list (tuple) of field specs.
Str(s) == [kind |-> "str", text |-> s]

List(xs) == [kind |-> "list", items |-> xs]

\* [[spec_parts[i-1] if i else None, spec_parts[i]]
\*      for i in xrange(0, len(spec_parts), 2)], then spec_pairs[0][0] = entity_type
spec_pairs(entity_type, spec_parts) ==
    [k \in 1..((Len(spec_parts) + 1) \div 2) |->
        <<IF k = 1 THEN entity_type ELSE spec_parts[2 * k - 2],
          spec_parts[2 * k - 1]>>]

\* resolved_pairs with the pairs of each entity type put before the earlier ones.
RECURSIVE resolved_pairs_prepended(_, _, _, _, _, _)
resolved_pairs_prepended(S, entity_types, field_spec, auto_prefix, implicit_aliases, strict) ==
    IF entity_types = <<>> THEN Ok(<<>>)
    ELSE LET entity_type == Head(entity_types)
             names == _resolve_field(S, entity_type, field_spec,
                                     auto_prefix, implicit_aliases, strict)
         IN  IF ~names.ok THEN names
             ELSE LET more == resolved_pairs_prepended(S, Tail(entity_types),
                                  field_spec, auto_prefix, implicit_aliases, strict)
                  IN  IF ~more.ok THEN more
                      ELSE Ok(more.val \o [i \in 1..Len(names.val) |->
                                              <<entity_type, names.val[i]>>])

\* The loops over entity_types and over _resolve_field's names of one hop.
RECURSIVE resolved_pairs(_, _, _, _, _, _)
resolved_pairs(S, entity_types, field_spec, auto_prefix, implicit_aliases, strict) ==
    IF entity_types = <<>> THEN Ok(<<>>)
    ELSE LET entity_type == Head(entity_types)
             names == _resolve_field(S, entity_type, field_spec,
                                     auto_prefix, implicit_aliases, strict)
         IN  IF ~names.ok THEN names
             ELSE LET more == resolved_pairs(S, Tail(entity_types), field_spec,
                                             auto_prefix, implicit_aliases, strict)
                  IN  IF ~more.ok THEN more
                      ELSE Ok([i \in 1..Len(names.val) |->
                                  <<entity_type, names.val[i]>>] \o more.val)

\* The loop over spec_pairs: one list of (entity_type, field_name) per hop.
RECURSIVE resolved_pair_sets(_, _, _, _, _)
resolved_pair_sets(S, pairs, auto_prefix, implicit_aliases, strict) ==
    IF pairs = <<>> THEN Ok(<<>>)
    ELSE LET entity_spec == Head(pairs)[1]
             field_spec == Head(pairs)[2]
             entity_types == resolve_entity(S, entity_spec, implicit_aliases, strict)
         IN  IF ~entity_types.ok THEN entity_types
             ELSE LET hop == resolved_pairs(S, entity_types.val, field_spec,
                                            auto_prefix, implicit_aliases, strict)
                  IN  IF ~hop.ok THEN hop
                      ELSE LET more == resolved_pair_sets(S, Tail(pairs), auto_prefix,
                                                          implicit_aliases, strict)
                           IN  IF ~more.ok THEN more
                               ELSE Ok(<<hop.val>> \o more.val)

\* product with the first pool varying fastest.
RECURSIVE product_first_fastest(_)
product_first_fastest(pools) ==
    IF pools = <<>> THEN << <<>> >>
    ELSE LET res == product_first_fastest(Tail(pools))
             pool == Head(pools)
         IN  [k \in 1..(Len(res) * Len(pool)) |->
                 <<pool[((k - 1) % Len(pool)) + 1]>>
                     \o res[((k - 1) \div Len(pool)) + 1]]

\* itertools.product(*pools): result = [[]];
\* for pool in pools: result = [x + [y] for x in result for y in pool]
RECURSIVE product(_)
product(pools) ==
    IF pools = <<>> THEN << <<>> >>
    ELSE LET res == product(SubSeq(pools, 1, Len(pools) - 1))
             pool == pools[Len(pools)]
         IN  [k \in 1..(Len(res) * Len(pool)) |->
                 Append(res[((k - 1) \div Len(pool)) + 1],
                        pool[((k - 1) % Len(pool)) + 1])]

\* '.'.join((entity_type + '.' if i else '') + field_name
\*          for i, (entity_type, field_name) in enumerate(pairs))
render(pairs) ==
    join([i \in 1..Len(pairs) |->
            (IF i > 1 THEN pairs[i][1] \o <<Dot>> ELSE <<>>) \o pairs[i][2]])

resolve_dotted(S, entity_type, spec_parts, auto_prefix, implicit_aliases, strict) ==
    LET sets == resolved_pair_sets(S, spec_pairs(entity_type, spec_parts),
                                   auto_prefix, implicit_aliases, strict)
    IN  IF ~sets.ok THEN sets
        ELSE LET combos == product(sets.val)
             IN  Ok([k \in 1..Len(combos) |-> render(combos[k])])

RECURSIVE resolve_field(_, _, _, _, _, _)
RECURSIVE resolve_field_list(_, _, _, _, _, _)
resolve_field(S, entity_type, field_spec, auto_prefix, implicit_aliases, strict) ==
    IF field_spec.kind = "list"
    THEN resolve_field_list(S, entity_type, field_spec.items,
                            auto_prefix, implicit_aliases, strict)
    ELSE LET spec_parts == split(field_spec.text) IN
         IF Len(spec_parts) = 1
         THEN _resolve_field(S, entity_type, field_spec.text,
                             auto_prefix, implicit_aliases, strict)
         ELSE resolve_dotted(S, entity_type, spec_parts,
                             auto_prefix, implicit_aliases, strict)

\* for x in field_spec: res.extend(self.resolve_field(entity_type, x, ...))
resolve_field_list(S, entity_type, items, auto_prefix, implicit_aliases, strict) ==
    IF items = <<>> THEN Ok(<<>>)
    ELSE LET first == resolve_field(S, entity_type, Head(items),
                                    auto_prefix, implicit_aliases, strict)
         IN  IF ~first.ok THEN first
             ELSE LET more == resolve_field_list(S, entity_type, Tail(items),
                                                 auto_prefix, implicit_aliases, strict)
                  IN  IF ~more.ok THEN more
                      ELSE Ok(first.val \o more.val)

(***************************************************************************)
(* Schema.resolve_structure                                                *)
(*                                                                         *)
(* A value is a scalar (a string), a list or tuple of values, or a dict.   *)
(* An argument dict carries its items as a sequence of <<key, value>>, in  *)
(* the order iteritems() yields them (the order of a Python 2 dict is not  *)
(* specified, so every order is an input).  A returned dict is a function  *)
(* from keys to values.                                                    *)
(***************************************************************************)
Scalar(v) == [t |-> "scalar", v |-> v]

ListOf(xs) == [t |-> "list", items |-> xs]

TupleOf(xs) == [t |-> "tuple", items |-> xs]

Dict(kvs) == [t |-> "dict", pairs |-> kvs]

DictValue(m) == [t |-> "dict", m |-> m]

TypeError == "TypeError"

\* new_values[k] = v
Put(m, k, v) == [x \in (DOMAIN m) \cup {k} |-> IF x = k THEN v ELSE m[x]]

\* for field in fields: new_values[field] = value
RECURSIVE PutAll(_, _, _)
PutAll(m, fields, v) ==
    IF fields = <<>> THEN m
    ELSE PutAll(Put(m, Head(fields), v), Tail(fields), v)

\* x.get('type'): the value under the key 'type', or None.
NoneValue == [t |-> "none"]

get_type(items) ==
    IF \E i \in 1..Len(items) : items[i][1] = s_type
    THEN items[CHOOSE i \in 1..Len(items) : items[i][1] = s_type][2]
    ELSE NoneValue

\* bool(v)
truthy(v) ==
    IF v.t = "none" THEN FALSE
    ELSE IF v.t = "scalar" THEN v.v # <<>>
    ELSE IF v.t = "dict" THEN v.pairs # <<>>
    ELSE v.items # <<>>

\* Whether hash(v) succeeds, as `entity_type in self.entities` needs.
RECURSIVE hashable(_)
hashable(v) ==
    IF v.t \in {"none", "scalar"} THEN TRUE
    ELSE IF v.t = "tuple" THEN \A i \in 1..Len(v.items) : hashable(v.items[i])
    ELSE FALSE

\* The default values of the keyword arguments.
default_auto_prefix == TRUE

default_implicit_aliases == TRUE

default_strict == FALSE

RECURSIVE resolve_structure(_, _, _, _, _, _)
RECURSIVE resolve_items(_, _, _, _, _)
RECURSIVE resolve_entity_items(_, _, _, _, _, _, _)
RECURSIVE resolve_plain_items(_, _, _, _, _, _)

\* entity_type is a value: NoneValue when the argument is not given.
resolve_structure(S, x, entity_type, auto_prefix, implicit_aliases, strict) ==
    IF x.t \in {"list", "tuple"}
    THEN LET r == resolve_items(S, x.items, auto_prefix, implicit_aliases, strict)
         IN  IF ~r.ok THEN r ELSE Ok([t |-> x.t, items |-> r.val])
    ELSE IF x.t = "dict"
    THEN LET etype == IF truthy(entity_type) THEN entity_type ELSE get_type(x.pairs)
         IN  IF truthy(etype) /\ ~hashable(etype) THEN Err(TypeError)
             ELSE IF truthy(etype) /\ etype.t = "scalar"
                     /\ etype.v \in DOMAIN S.entities
             THEN resolve_entity_items(S, x.pairs, etype.v, auto_prefix,
                                       implicit_aliases, strict, <<>>)
             ELSE resolve_plain_items(S, x.pairs, auto_prefix,
                                      implicit_aliases, strict, <<>>)
    ELSE Ok(x)

\* type(x)(self.resolve_structure(x, **kwargs) for x in x)
resolve_items(S, items, auto_prefix, implicit_aliases, strict) ==
    IF items = <<>> THEN Ok(<<>>)
    ELSE LET first == resolve_structure(S, Head(items), NoneValue,
                                        auto_prefix, implicit_aliases, strict)
         IN  IF ~first.ok THEN first
             ELSE LET more == resolve_items(S, Tail(items), auto_prefix,
                                            implicit_aliases, strict)
                  IN  IF ~more.ok THEN more
                      ELSE Ok(<<first.val>> \o more.val)

\* resolve_entity_items with the "type" entry left out of the result.
RECURSIVE resolve_entity_items_without_type(_, _, _, _, _, _, _)
resolve_entity_items_without_type(S, items, entity_type, auto_prefix, implicit_aliases, strict, new_values) ==
    IF items = <<>> THEN Ok(DictValue(new_values))
    ELSE LET field_spec == Head(items)[1]
             value == resolve_structure(S, Head(items)[2], NoneValue,
                                        default_auto_prefix, default_implicit_aliases,
                                        default_strict)
         IN  IF ~value.ok THEN value
             ELSE LET fields == resolve_field(S, entity_type, Str(field_spec),
                                              auto_prefix, implicit_aliases, strict)
                  IN  IF ~fields.ok THEN fields
                      ELSE resolve_entity_items_without_type(S, Tail(items),
                               entity_type, auto_prefix, implicit_aliases, strict,
                               IF field_spec = s_type THEN new_values
                               ELSE PutAll(new_values, fields.val, value.val))

\* for field_spec, value in x.iteritems():
\*     value = self.resolve_structure(value)
\*     for field in self.resolve_field(entity_type, field_spec, **kwargs):
\*         new_values[field] = value
resolve_entity_items(S, items, entity_type, auto_prefix, implicit_aliases, strict, new_values) ==
    IF items = <<>> THEN Ok(DictValue(new_values))
    ELSE LET field_spec == Head(items)[1]
             value == resolve_structure(S, Head(items)[2], NoneValue,
                                        default_auto_prefix, default_implicit_aliases,
                                        default_strict)
         IN  IF ~value.ok THEN value
             ELSE LET fields == resolve_field(S, entity_type, Str(field_spec),
                                              auto_prefix, implicit_aliases, strict)
                  IN  IF ~fields.ok THEN fields
                      ELSE resolve_entity_items(S, Tail(items), entity_type,
                               auto_prefix, implicit_aliases, strict,
                               PutAll(new_values, fields.val, value.val))

\* {k: self.resolve_structure(v, **kwargs) for k, v in x.iteritems()}
resolve_plain_items(S, items, auto_prefix, implicit_aliases, strict, new_values) ==
    IF items = <<>> THEN Ok(DictValue(new_values))
    ELSE LET value == resolve_structure(S, Head(items)[2], NoneValue,
                                        auto_prefix, implicit_aliases, strict)
         IN  IF ~value.ok THEN value
             ELSE resolve_plain_items(S, Tail(items), auto_prefix, implicit_aliases,
                                      strict, Put(new_values, Head(items)[1], value.val))

(***************************************************************************)
(* The names used by the schema stores and the calls.                      *)
(***************************************************************************)
sA == <<"A">>

sB == <<"B">>

sC == <<"C">>

sZ == <<"Z">>

s_a == <<"a">>

s_t == <<"t">>

s_u == <<"u">>

s_f == <<"f">>

sg_f == <<"s", "g", "_", "f">>

s_x == <<"x">>

s_y == <<"y">>

s_rel == <<"r", "e", "l">>

s_field == <<"f", "i", "e", "l", "d">>

sShot == <<"S", "h", "o", "t">>

sNope == <<"N", "o", "p", "e">>

sg_status == <<"s", "g", "_", "s", "t", "a", "t", "u", "s">>

sg_status_list == <<"s", "g", "_", "s", "t", "a", "t", "u", "s", "_", "l", "i", "s", "t">>

s_ip == <<"i", "p">>

s_zz == <<"z", "z">>

\* The partial functions from a subset of K to V: the possible alias or tag
\* tables over the keys K.
PartialFns(K, V) == UNION {[D -> V] : D \in SUBSET K}

\* An Entity: its fields (presence only), field_aliases and field_tags.
Entity(fields, field_aliases, field_tags) ==
    [fields |-> fields, field_aliases |-> field_aliases, field_tags |-> field_tags]

EmptyEntity == Entity({}, <<>>, <<>>)

\* A Schema after loading: entities, entity_aliases, entity_tags.
Schema(entities, entity_aliases, entity_tags) ==
    [entities |-> entities, entity_aliases |-> entity_aliases,
     entity_tags |-> entity_tags]

Sigils == {<<>>, <<"!">>, <<"#">>, <<"$">>, <<"%">>, <<"_">>}

NotCalled == [op |-> "none"]

(***************************************************************************)
(* Calls of resolve_entity over every store of a small family.             *)
(***************************************************************************)
EntityStores ==
    {Schema([n \in ns |-> EmptyEntity], ea, tg) :
        ns \in SUBSET {sA, sB},
        ea \in PartialFns({s_a, sA}, {sA, sB, sZ}),
        tg \in PartialFns({s_t}, {<<>>, <<sB, sZ>>, <<sA, sB>>, <<sB, sB>>})}

EntitySpecs == {sg \o n : sg \in Sigils, n \in {<<>>, sA, sB, sZ, s_a, s_t}}

InitEntity ==
    /\ store \in EntityStores
    /\ call = NotCalled
    /\ result = Ok(<<>>)

Idle == call.op = "none"

CallResolveEntity ==
    /\ Idle
    /\ \E entity_spec \in EntitySpecs, implicit_aliases \in BOOLEAN, strict \in BOOLEAN :
        /\ call' = [op |-> "resolve_entity", entity_spec |-> entity_spec,
                    implicit_aliases |-> implicit_aliases, strict |-> strict]
        /\ result' = resolve_entity(store, entity_spec, implicit_aliases, strict)
    /\ UNCHANGED store

\* The caller takes the result; the store is left as it was.
Return ==
    /\ ~Idle
    /\ call' = NotCalled
    /\ result' = Ok(<<>>)
    /\ UNCHANGED store

NextEntity == CallResolveEntity \/ Return

SpecEntity == InitEntity /\ [][NextEntity]_vars

(***************************************************************************)
(* Calls of resolve_field with an undotted spec, over every entity         *)
(* definition of a small family.                                           *)
(***************************************************************************)
EntityDefs ==
    {Entity(fs, al, tg) :
        fs \in SUBSET {s_f, sg_f, s_x},
        al \in PartialFns({s_f, s_id}, {s_x, sg_f}),
        tg \in PartialFns({s_t}, {<<s_x, s_y>>})}

SingleStores ==
    {Schema([n \in {sA} |-> d], ea, <<>>) :
        d \in EntityDefs, ea \in PartialFns({s_a}, {sA})}

SingleSpecs ==
    {sg \o n : sg \in Sigils, n \in {<<>>, s_f, sg_f, s_x, s_t, s_id, s_type}}

InitSingle ==
    /\ store \in SingleStores
    /\ call = NotCalled
    /\ result = Ok(<<>>)

CallResolveFieldSingle ==
    /\ Idle
    /\ \E entity_type \in {sA, sZ}, field_spec \in SingleSpecs,
          auto_prefix \in BOOLEAN, implicit_aliases \in BOOLEAN, strict \in BOOLEAN :
        /\ call' = [op |-> "resolve_field", entity_type |-> entity_type,
                    field_spec |-> Str(field_spec), auto_prefix |-> auto_prefix,
                    implicit_aliases |-> implicit_aliases, strict |-> strict]
        /\ result' = resolve_field(store, entity_type, Str(field_spec),
                                   auto_prefix, implicit_aliases, strict)
    /\ UNCHANGED store

NextSingle == CallResolveFieldSingle \/ CallResolveEntity \/ Return

SpecSingle == InitSingle /\ [][NextSingle]_vars

(***************************************************************************)
(* Calls of resolve_field with dotted specs (and lists of specs).          *)
(***************************************************************************)
\* The largest number of dot-separated tokens of a field spec.
MaxTokens == 5

s_g == <<"g">>

\* The root entity type A with or without a relation field, B and C resolving
\* "field" to x and to y, and the tag t in order, with a repeated and with an
\* unknown member.
DottedStores ==
    {Schema([n \in {sA, sB, sC} |->
                IF n = sA THEN dA
                ELSE IF n = sB
                THEN Entity({s_x}, (s_field :> s_x), (s_g :> <<s_x, s_y>>))
                ELSE Entity({s_y}, (s_field :> s_y), <<>>)],
            (s_a :> sB), (s_t :> tg)) :
        dA \in {EmptyEntity,
                Entity({s_rel}, (sA :> s_rel), (s_g :> <<s_rel, s_x>>))},
        tg \in {<<sB, sC>>, <<sB, sB>>, <<sB, sZ>>}}

\* The tokens at the odd places of a spec, which the code reads as field specs.
FieldTokens == {s_field, <<"#">> \o s_g, s_rel, sA, <<"%">>}

\* The tokens at the even places, which the code reads as entity specs.
EntityTokens == {sB, <<"#">> \o s_t, <<"$">> \o s_a, <<"%">>}

RECURSIVE TokenSeqs(_)
TokenSeqs(n) ==
    IF n = 0 THEN {<<>>}
    ELSE {Append(ts, t) : ts \in TokenSeqs(n - 1),
                          t \in IF n % 2 = 1 THEN FieldTokens ELSE EntityTokens}

DottedSpecs == {join(ts) : ts \in UNION {TokenSeqs(n) : n \in 2..MaxTokens}}

ListSpecs ==
    {List(<<>>),
     List(<<Str(s_field), Str(<<"#">> \o s_g)>>),
     List(<<Str(s_rel \o <<Dot>> \o sB \o <<Dot>> \o s_field),
            List(<<Str(s_field), Str(s_field)>>)>>),
     List(<<Str(s_field), Str(<<"%">>), Str(s_rel)>>)}

InitDotted ==
    /\ store \in DottedStores
    /\ call = NotCalled
    /\ result = Ok(<<>>)

DottedFieldSpecs == {Str(s) : s \in DottedSpecs}

RootSpecs == {sA, <<"#">> \o s_t, sZ}

CallResolveFieldDotted ==
    /\ Idle
    /\ \E entity_type \in RootSpecs, field_spec \in DottedFieldSpecs,
          auto_prefix \in BOOLEAN, implicit_aliases \in BOOLEAN, strict \in BOOLEAN :
        /\ call' = [op |-> "resolve_field", entity_type |-> entity_type,
                    field_spec |-> field_spec, auto_prefix |-> auto_prefix,
                    implicit_aliases |-> implicit_aliases, strict |-> strict]
        /\ result' = resolve_field(store, entity_type, field_spec,
                                   auto_prefix, implicit_aliases, strict)
    /\ UNCHANGED store

CallResolveFieldList ==
    /\ Idle
    /\ \E entity_type \in RootSpecs, field_spec \in ListSpecs,
          auto_prefix \in BOOLEAN, implicit_aliases \in BOOLEAN, strict \in BOOLEAN :
        /\ call' = [op |-> "resolve_field", entity_type |-> entity_type,
                    field_spec |-> field_spec, auto_prefix |-> auto_prefix,
                    implicit_aliases |-> implicit_aliases, strict |-> strict]
        /\ result' = resolve_field(store, entity_type, field_spec,
                                   auto_prefix, implicit_aliases, strict)
    /\ UNCHANGED store

NextDotted == CallResolveFieldDotted \/ CallResolveFieldList \/ Return

SpecDotted == InitDotted /\ [][NextDotted]_vars

(***************************************************************************)
(* Calls of resolve_structure over nested values.                          *)
(***************************************************************************)
\* The deepest nesting of containers in a value.
MaxDepth == 2

s_rel_Shot_f == s_rel \o <<Dot>> \o sShot \o <<Dot>> \o s_f

s_rel_Nope_f == s_rel \o <<Dot>> \o sNope \o <<Dot>> \o s_f

\* The entity type Shot, with or without a field named like its alias
\* sg_status, and with or without aliases spelled like field names.
StructStores ==
    {Schema((sShot :> Entity({sg_status_list, sg_f, s_x} \cup extra, al, <<>>)),
            <<>>, <<>>) :
        extra \in {{}, {sg_status}},
        al \in {(sg_status :> sg_status_list),
                (sg_status :> sg_status_list) @@ (s_x :> sg_f) @@ (sg_f :> s_x)}}

StructKeys == {sg_status, sg_status_list, s_f, sg_f, s_x, s_zz, s_id,
               <<"$">> \o s_u, s_rel_Shot_f, s_rel_Nope_f}

TypeItems == {<<s_type, Scalar(sShot)>>, <<s_type, Scalar(sNope)>>}

\* The dicts of one key at most beside "type", in both iteration orders.
DictsOver(keys, values) ==
    {Dict(<<>>)}
    \cup {Dict(<<ty>>) : ty \in TypeItems}
    \cup {Dict(<<<<k, v>>>>) : k \in keys, v \in values}
    \cup {Dict(<<ty, <<k, v>>>>) : ty \in TypeItems, k \in keys, v \in values}
    \cup {Dict(<<<<k, v>>, ty>>) : ty \in TypeItems, k \in keys, v \in values}

\* The containers around already built values: a list, a tuple, a dict without
\* "type" and an entity-shaped dict.
Wrap(values) ==
    {ListOf(<<v>>) : v \in values}
    \cup {TupleOf(<<v>>) : v \in values}
    \cup {Dict(<<<<s_f, v>>>>) : v \in values}
    \cup {Dict(<<<<s_type, Scalar(sShot)>>, <<k, v>>>>) : k \in {s_f, sg_f}, v \in values}
    \cup {Dict(<<<<k, v>>, <<s_type, Scalar(sShot)>>>>) : k \in {s_f, sg_f}, v \in values}

RECURSIVE Values(_)
Values(d) ==
    IF d = 0 THEN {Scalar(s_ip)}
    ELSE IF d = 1 THEN Values(0) \cup DictsOver(StructKeys, Values(0))
                       \cup {ListOf(<<>>), ListOf(<<Scalar(s_ip)>>)}
    ELSE Values(d - 1) \cup Wrap(Values(d - 1))

StructValues == Values(MaxDepth)

EntityTypeArgs == {NoneValue, Scalar(sShot)}

InitStructure ==
    /\ store \in StructStores
    /\ call = NotCalled
    /\ result = Ok(<<>>)

CallResolveStructure ==
    /\ Idle
    /\ \E x \in StructValues, entity_type \in EntityTypeArgs,
          auto_prefix \in BOOLEAN, implicit_aliases \in BOOLEAN, strict \in BOOLEAN :
        /\ call' = [op |-> "resolve_structure", x |-> x, entity_type |-> entity_type,
                    auto_prefix |-> auto_prefix,
                    implicit_aliases |-> implicit_aliases, strict |-> strict]
        /\ result' = resolve_structure(store, x, entity_type,
                                       auto_prefix, implicit_aliases, strict)
    /\ UNCHANGED store

NextStructure == CallResolveStructure \/ Return

SpecStructure == InitStructure /\ [][NextStructure]_vars

(***************************************************************************)
(* Claims about resolve_entity and the undotted resolve_field.             *)
(***************************************************************************)
SigilChars == {"!", "#", "$"}

\* C3: for every non-empty entity spec and every store, resolve_entity follows
\* the sigil grammar: "!X" gives [X] whether or not X is known; "#T" gives the
\* members of entity_tags[T] in order, or [] when T is undefined; "$A" gives
\* [entity_aliases[A]] when A is defined and [] otherwise; a first character
\* that is neither alphanumeric nor a sigil fails with InvalidSpec; an
\* alphanumeric-led spec gives [spec] when it is a known entity type (even if
\* it is also an alias), else its alias when implicit_aliases is set and it is
\* an alias, else fails with UnknownEntity when strict, else gives [spec].
C3_EntityGrammar ==
    (call.op = "resolve_entity" /\ call.entity_spec # <<>>) =>
        LET spec == call.entity_spec
            c == spec[1]
            name == SubSeq(spec, 2, Len(spec))
            known == spec \in DOMAIN store.entities
            aliased == call.implicit_aliases /\ spec \in DOMAIN store.entity_aliases
        IN  /\ c = "!" => result = Ok(<<name>>)
            /\ (c = "#" /\ name \in DOMAIN store.entity_tags)
                   => result = Ok(store.entity_tags[name])
            /\ (c = "#" /\ name \notin DOMAIN store.entity_tags) => result = Ok(<<>>)
            /\ (c = "$" /\ name \in DOMAIN store.entity_aliases)
                   => result = Ok(<<store.entity_aliases[name]>>)
            /\ (c = "$" /\ name \notin DOMAIN store.entity_aliases) => result = Ok(<<>>)
            /\ (~isalnum(c) /\ c \notin SigilChars) => result = Err(InvalidSpec)
            /\ (isalnum(c) /\ known) => result = Ok(<<spec>>)
            /\ (isalnum(c) /\ ~known /\ aliased)
                   => result = Ok(<<store.entity_aliases[spec]>>)
            /\ (isalnum(c) /\ ~known /\ ~aliased /\ call.strict)
                   => result = Err(UnknownEntity)
            /\ (isalnum(c) /\ ~known /\ ~aliased /\ ~call.strict)
                   => result = Ok(<<spec>>)

\* A known entity type that is also an alias of another type resolves to itself.
C3_Witness ==
    /\ call.op = "resolve_entity"
    /\ call.entity_spec = sA
    /\ call.implicit_aliases
    /\ sA \in DOMAIN store.entities
    /\ sA \in DOMAIN store.entity_aliases
    /\ store.entity_aliases[sA] = sB
    /\ result = Ok(<<sA>>)

NoDot(s) == \A i \in 1..Len(s) : s[i] # "."

\* C4: for a known entity type E and an undotted, alphanumeric-led field spec s
\* other than "id" and "type", resolve_field(E, s) is [s] when s is a field of
\* E; else ["sg_" + s] when auto_prefix is set and "sg_" + s is a field; else
\* [E.field_aliases[s]] when implicit_aliases is set and s is a field alias;
\* else fails with UnknownEntity when strict; else [s].
C4_FieldPrecedence ==
    (/\ call.op = "resolve_field"
     /\ call.field_spec.kind = "str"
     /\ call.entity_type \in DOMAIN store.entities
     /\ call.field_spec.text # <<>>
     /\ NoDot(call.field_spec.text)
     /\ isalnum(call.field_spec.text[1])
     /\ call.field_spec.text \notin {<<"i", "d">>, <<"t", "y", "p", "e">>}) =>
        LET s == call.field_spec.text
            e == store.entities[call.entity_type]
            sg_s == <<"s", "g", "_">> \o s
            exact == s \in e.fields
            prefixed == call.auto_prefix /\ sg_s \in e.fields
            aliased == call.implicit_aliases /\ s \in DOMAIN e.field_aliases
        IN  /\ exact => result = Ok(<<s>>)
            /\ (~exact /\ prefixed) => result = Ok(<<sg_s>>)
            /\ (~exact /\ ~prefixed /\ aliased) => result = Ok(<<e.field_aliases[s]>>)
            /\ (~exact /\ ~prefixed /\ ~aliased /\ call.strict)
                   => result = Err(UnknownEntity)
            /\ (~exact /\ ~prefixed /\ ~aliased /\ ~call.strict) => result = Ok(<<s>>)

\* The prefixed name beats an alias of the same spelling.
C4_Witness ==
    /\ call.op = "resolve_field"
    /\ call.entity_type = sA
    /\ call.field_spec = Str(s_f)
    /\ call.auto_prefix /\ call.implicit_aliases
    /\ s_f \notin store.entities[sA].fields
    /\ sg_f \in store.entities[sA].fields
    /\ s_f \in DOMAIN store.entities[sA].field_aliases
    /\ store.entities[sA].field_aliases[s_f] = s_x
    /\ result = Ok(<<sg_f>>)

\* Whether the call is resolve_field(E, "$A") on a known E with A not a key of
\* E.field_aliases.
FieldAliasMiss ==
    /\ call.op = "resolve_field"
    /\ call.field_spec.kind = "str"
    /\ call.entity_type \in DOMAIN store.entities
    /\ call.field_spec.text # <<>>
    /\ call.field_spec.text[1] = "$"
    /\ Rest(call.field_spec.text) # <<>>
    /\ NoDot(call.field_spec.text)
    /\ Rest(call.field_spec.text) \notin DOMAIN store.entities[call.entity_type].field_aliases

\* Whether the call is resolve_entity("$A") with A not a key of entity_aliases.
EntityAliasMiss ==
    /\ call.op = "resolve_entity"
    /\ call.entity_spec # <<>>
    /\ call.entity_spec[1] = "$"
    /\ Rest(call.entity_spec) \notin DOMAIN store.entity_aliases

\* C5 as stated: a field alias miss "$A" returns [A], an entity alias miss [].
C5_AsStated ==
    /\ FieldAliasMiss => result = Ok(<<Rest(call.field_spec.text)>>)
    /\ EntityAliasMiss => result = Ok(<<>>)

\* C5, amended: for a known entity type E and a field spec "$A" where A is not
\* a key of E.field_aliases, resolve_field returns the one-element list holding
\* the whole spec "$A", sigil included (never the empty list), whereas
\* resolve_entity("$A") for an undefined entity alias A returns [].
C5_AliasMissAsymmetry ==
    /\ FieldAliasMiss => result = Ok(<<call.field_spec.text>>)
    /\ EntityAliasMiss => result = Ok(<<>>)

C5_Witness ==
    /\ FieldAliasMiss
    /\ call.field_spec.text = <<"$", "f">>
    /\ result = Ok(<<<<"$", "f">>>>)

(***************************************************************************)
(* Claims about dotted field specs.                                        *)
(***************************************************************************)
\* Whether the call is resolve_field with one string holding at least one dot.
DottedCall ==
    /\ call.op = "resolve_field"
    /\ call.field_spec.kind = "str"
    /\ ~NoDot(call.field_spec.text)

\* The tokens of the called spec.
CallTokens == split(call.field_spec.text)

\* The hops of the called spec: the first hop's entity spec is the root entity
\* type, a later hop's is the token before its field spec.
HopCount == (Len(CallTokens) + 1) \div 2

HopEntitySpec(k) == IF k = 1 THEN call.entity_type ELSE CallTokens[2 * k - 2]

HopFieldSpec(k) == CallTokens[2 * k - 1]

HopEntities(k) ==
    resolve_entity(store, HopEntitySpec(k), call.implicit_aliases, call.strict)

HopFields(k, e) ==
    _resolve_field(store, e, HopFieldSpec(k), call.auto_prefix,
                   call.implicit_aliases, call.strict)

\* Whether every candidate of every hop resolves without an error.
AllHopsResolve ==
    \A k \in 1..HopCount :
        /\ HopEntities(k).ok
        /\ \A i \in 1..Len(HopEntities(k).val) : HopFields(k, HopEntities(k).val[i]).ok

\* The candidates of hop k: outer loop over the entity candidates, inner loop
\* over the field candidates of each.
RECURSIVE CandidatesFrom(_, _)
CandidatesFrom(k, es) ==
    IF es = <<>> THEN <<>>
    ELSE LET fs == HopFields(k, es[1]).val
         IN  [i \in 1..Len(fs) |-> <<es[1], fs[i]>>] \o CandidatesFrom(k, Tail(es))

Candidates(k) == CandidatesFrom(k, HopEntities(k).val)

\* The number of combinations of the hops from..Len(cands).
RECURSIVE CountFrom(_, _)
CountFrom(cands, from) ==
    IF from > Len(cands) THEN 1 ELSE Len(cands[from]) * CountFrom(cands, from + 1)

\* The candidate of hop k in the combination numbered n (from 0), the first
\* hop varying slowest.
Chosen(cands, n, k) ==
    cands[k][((n \div CountFrom(cands, k + 1)) % Len(cands[k])) + 1]

\* The path of combination n: the first hop's field name, then
\* ".<entity_type>.<field_name>" for every later hop.
RECURSIVE PathFrom(_, _, _)
PathFrom(cands, n, k) ==
    IF k > Len(cands) THEN <<>>
    ELSE (IF k = 1 THEN <<>> ELSE <<".">> \o Chosen(cands, n, k)[1] \o <<".">>)
         \o Chosen(cands, n, k)[2] \o PathFrom(cands, n, k + 1)

\* C1: a dotted resolve_field returns the cartesian product of the per-hop
\* candidate lists, the first hop varying slowest: as many paths as the product
\* of the per-hop candidate counts (none when a hop has no candidate), each the
\* first hop's field name followed by "<entity_type>.<field_name>" of every
\* later hop joined with '.', repeated candidates kept.
C1_CartesianProduct ==
    DottedCall =>
        /\ result.ok <=> AllHopsResolve
        /\ result.ok =>
            LET cands == [k \in 1..HopCount |-> Candidates(k)]
            IN  /\ Len(result.val) = CountFrom(cands, 1)
                /\ (\E k \in 1..HopCount : cands[k] = <<>>) => result.val = <<>>
                /\ \A n \in 1..Len(result.val) :
                       result.val[n] = PathFrom(cands, n - 1, 1)

\* Two hops of two candidates each, the second hop's repeated: four paths, the
\* repeated ones kept, the first hop varying slowest.
C1_Witness ==
    /\ DottedCall
    /\ call.entity_type = sA
    /\ call.field_spec.text = <<"#", "g", ".", "#", "t", ".", "f", "i", "e", "l", "d">>
    /\ result = Ok(<< <<"r", "e", "l", ".", "B", ".", "x">>,
                      <<"r", "e", "l", ".", "B", ".", "x">>,
                      <<"x", ".", "B", ".", "x">>,
                      <<"x", ".", "B", ".", "x">> >>)

\* The case of C2: the known root A, the spec "A.#t.field", the tag t holding
\* [B, C] in that order, and "field" resolving to x on B and to y on C.
C2_Case ==
    /\ DottedCall
    /\ call.entity_type = sA
    /\ sA \in DOMAIN store.entities
    /\ call.field_spec.text = <<"A", ".", "#", "t", ".", "f", "i", "e", "l", "d">>
    /\ s_t \in DOMAIN store.entity_tags
    /\ store.entity_tags[s_t] = <<sB, sC>>
    /\ _resolve_field(store, sB, s_field, call.auto_prefix, call.implicit_aliases,
                      call.strict) = Ok(<<s_x>>)
    /\ _resolve_field(store, sC, s_field, call.auto_prefix, call.implicit_aliases,
                      call.strict) = Ok(<<s_y>>)

\* C2 as stated: resolve_field(A, "A.#t.field") returns exactly ["B.x", "C.y"].
C2_AsStated ==
    C2_Case => result = Ok(<< <<"B", ".", "x">>, <<"C", ".", "y">> >>)

\* What the leading token "A" resolves to as a field spec of the root A.
C2_FirstHop ==
    _resolve_field(store, sA, sA, call.auto_prefix, call.implicit_aliases, call.strict)

\* C2, amended: given a known root entity type A, a tag t whose members are
\* [B, C] in that order, and the field spec "field" resolving to x on B and to
\* y on C, resolve_field(A, "A.#t.field") takes the leading token "A" as the
\* first hop's field spec on A; when that resolves to the one name p (the
\* literal "A" when A has no field, prefixed field or alias of that name) the
\* call returns exactly [p + ".B.x", p + ".C.y"], in tag order.
C2_TagOrder ==
    (C2_Case /\ C2_FirstHop.ok /\ Len(C2_FirstHop.val) = 1) =>
        LET p == C2_FirstHop.val[1]
        IN  result = Ok(<< p \o <<".", "B", ".", "x">>, p \o <<".", "C", ".", "y">> >>)

C2_Witness ==
    /\ C2_Case
    /\ ~call.strict
    /\ result = Ok(<< <<"A", ".", "B", ".", "x">>, <<"A", ".", "C", ".", "y">> >>)

\* Whether every candidate entity type and field name of the call is dot-free.
DotFreeCandidates ==
    \A k \in 1..HopCount : \A i \in 1..Len(Candidates(k)) :
        NoDot(Candidates(k)[i][1]) /\ NoDot(Candidates(k)[i][2])

\* C10: in dotted resolution no token of the spec is dropped: for a spec of
\* n >= 2 tokens whose resolved names are dot-free, every returned path has
\* exactly n dot-separated segments, for even n as well as odd n.
C10_NoTokenDropped ==
    (DottedCall /\ result.ok /\ DotFreeCandidates) =>
        \A i \in 1..Len(result.val) : Len(split(result.val[i])) = Len(CallTokens)

(***************************************************************************)
(* Claims about resolve_structure.                                         *)
(***************************************************************************)
\* The case of C6: the mapping {"type": "Shot", "sg_status": "ip"} in either
\* iteration order, no entity_type argument, the default implicit_aliases, Shot
\* known with the alias sg_status -> sg_status_list and no field sg_status or
\* sg_sg_status.
C6_Case ==
    /\ call.op = "resolve_structure"
    /\ call.x \in {Dict(<<<<s_type, Scalar(sShot)>>, <<sg_status, Scalar(s_ip)>>>>),
                   Dict(<<<<sg_status, Scalar(s_ip)>>, <<s_type, Scalar(sShot)>>>>)}
    /\ call.entity_type = NoneValue
    /\ call.implicit_aliases
    /\ sShot \in DOMAIN store.entities
    /\ sg_status \in DOMAIN store.entities[sShot].field_aliases
    /\ store.entities[sShot].field_aliases[sg_status] = sg_status_list
    /\ sg_status \notin store.entities[sShot].fields
    /\ (sg_prefix \o sg_status) \notin store.entities[sShot].fields

\* C6 as stated: the call returns exactly {"sg_status_list": "ip"}.
C6_AsStated ==
    C6_Case => result = Ok(DictValue((sg_status_list :> Scalar(s_ip))))

\* C6, amended: for the mapping {"type": "Shot", "sg_status": "ip"} where Shot
\* is a known entity type and Shot.field_aliases["sg_status"] ==
\* "sg_status_list" (and neither "sg_status" nor "sg_sg_status" is a field of
\* Shot), resolve_structure returns exactly the mapping
\* {"type": "Shot", "sg_status_list": "ip"}: the "type" entry is kept.
C6_AliasKeyRewritten ==
    C6_Case => result = Ok(DictValue((s_type :> Scalar(sShot))
                                     @@ (sg_status_list :> Scalar(s_ip))))

C6_Witness ==
    /\ C6_Case
    /\ result.ok
    /\ DOMAIN result.val.m = {s_type, sg_status_list}
    /\ result.val.m[sg_status_list] = Scalar(s_ip)

\* Whether a dict argument is rewritten as an entity record: the entity_type
\* argument, or else its "type" entry, names a known entity type.
EntityTypeOf(x, entity_type) ==
    IF truthy(entity_type) THEN entity_type ELSE get_type(x.pairs)

EntityShaped(x, entity_type) ==
    /\ x.t = "dict"
    /\ EntityTypeOf(x, entity_type).t = "scalar"
    /\ EntityTypeOf(x, entity_type).v \in DOMAIN store.entities

\* Whether every token of a key starts with an alphanumeric character or with
\* one of the sigils.
WellFormedKey(k) ==
    \A i \in 1..Len(split(k)) :
        /\ split(k)[i] # <<>>
        /\ (isalnum(split(k)[i][1]) \/ split(k)[i][1] \in SigilChars)

RECURSIVE WellFormedKeys(_)
WellFormedKeys(x) ==
    IF x.t \in {"list", "tuple"}
    THEN \A i \in 1..Len(x.items) : WellFormedKeys(x.items[i])
    ELSE IF x.t = "dict"
    THEN \A i \in 1..Len(x.pairs) :
            WellFormedKey(x.pairs[i][1]) /\ WellFormedKeys(x.pairs[i][2])
    ELSE TRUE

\* C7: with strict=false, resolve_structure never fails on a mapping whose
\* "type" names a known entity because of an unmapped key: when every token of
\* every key starts with an alphanumeric character or a sigil, an undefined
\* alias or tag, an unknown field or a not-yet-existing hop entity type resolves
\* to an empty list or a literal passthrough, and the call returns a mapping.
C7_LenientNeverFails ==
    (/\ call.op = "resolve_structure"
     /\ ~call.strict
     /\ call.x.t = "dict"
     /\ EntityShaped(call.x, NoneValue)
     /\ WellFormedKeys(call.x)) =>
        result.ok /\ result.val.t = "dict"

\* What the keys of the called entity record resolve to.
KeyFields(i) ==
    resolve_field(store, EntityTypeOf(call.x, call.entity_type).v,
                  Str(call.x.pairs[i][1]), call.auto_prefix, call.implicit_aliases,
                  call.strict)

\* The same value rewritten as the element of a list, under the call's options.
ViaList(v) ==
    resolve_structure(store, ListOf(<<v>>), NoneValue, call.auto_prefix,
                      call.implicit_aliases, call.strict)

\* C9: the options given to resolve_structure apply at every nesting depth: an
\* entity-shaped mapping nested as a value of an entity-shaped mapping is
\* rewritten exactly as it would be as the element of a sequence.
C9_OptionsUniform ==
    (/\ call.op = "resolve_structure"
     /\ EntityShaped(call.x, call.entity_type)
     /\ result.ok) =>
        \A i \in 1..Len(call.x.pairs) :
            EntityShaped(call.x.pairs[i][2], NoneValue) =>
                /\ ViaList(call.x.pairs[i][2]).ok
                /\ \A n \in 1..Len(KeyFields(i).val) :
                      (\A j \in (i + 1)..Len(call.x.pairs) :
                          \A q \in 1..Len(KeyFields(j).val) :
                              KeyFields(j).val[q] # KeyFields(i).val[n])
                      => result.val.m[KeyFields(i).val[n]]
                             = ViaList(call.x.pairs[i][2]).val.items[1]

\* Whether every key of every entity-shaped mapping of x is a field of its
\* entity type, or "id" or "type".
RECURSIVE Canonical(_, _)
Canonical(x, entity_type) ==
    IF x.t \in {"list", "tuple"}
    THEN \A i \in 1..Len(x.items) : Canonical(x.items[i], NoneValue)
    ELSE IF x.t = "dict"
    THEN \A i \in 1..Len(x.pairs) :
            /\ EntityShaped(x, entity_type) =>
                   x.pairs[i][1] \in
                       store.entities[EntityTypeOf(x, entity_type).v].fields
                           \cup {s_id, s_type}
            /\ Canonical(x.pairs[i][2], NoneValue)
    ELSE TRUE

\* The orders in which the n elements of a set can be listed.
Listings(set) ==
    {p \in [1..Cardinality(set) -> set] :
        \A i, j \in 1..Cardinality(set) : p[i] = p[j] => i = j}

\* A returned value passed as an argument again: each of its dicts yields its
\* items in some order.
RECURSIVE Arguments(_)
Arguments(r) ==
    IF r.t \in {"list", "tuple"}
    THEN {[t |-> r.t, items |-> c] :
             c \in {c \in [1..Len(r.items) ->
                              UNION {Arguments(r.items[i]) : i \in 1..Len(r.items)}] :
                       \A i \in 1..Len(r.items) : c[i] \in Arguments(r.items[i])}}
    ELSE IF r.t = "dict"
    THEN {Dict([i \in 1..Len(p) |-> <<p[i], c[p[i]]>>]) :
             p \in Listings(DOMAIN r.m),
             c \in {c \in [DOMAIN r.m -> UNION {Arguments(r.m[k]) : k \in DOMAIN r.m}] :
                       \A k \in DOMAIN r.m : c[k] \in Arguments(r.m[k])}}
    ELSE {r}

\* C8: resolve_structure is idempotent on canonical input: when every key of
\* every entity-shaped mapping of x is a field of its entity type (or "id" or
\* "type"), resolve_structure(resolve_structure(x)) == resolve_structure(x),
\* whatever order the returned dicts yield their items in.
C8_Idempotent ==
    (call.op = "resolve_structure" /\ Canonical(call.x, call.entity_type)) =>
        /\ result.ok
        /\ \A y \in Arguments(result.val) :
               resolve_structure(store, y, call.entity_type, call.auto_prefix,
                                 call.implicit_aliases, call.strict) = result

\* A canonical entity record holding a canonical entity record.
C8_Witness ==
    /\ call.op = "resolve_structure"
    /\ Canonical(call.x, call.entity_type)
    /\ EntityShaped(call.x, call.entity_type)
    /\ \E i \in 1..Len(call.x.pairs) :
          /\ call.x.pairs[i][1] = sg_f
          /\ EntityShaped(call.x.pairs[i][2], NoneValue)
          /\ \E j \in 1..Len(call.x.pairs[i][2].pairs) :
                call.x.pairs[i][2].pairs[j][1] = sg_status_list
    /\ result.ok
    /\ sg_f \in DOMAIN result.val.m
    /\ sg_status_list \in DOMAIN result.val.m[sg_f].m

====
